---- MODULE Spec2Model ----
(***************************************************************************)
(* NHITS (nbs/models.nhits.ipynb): the interpolation basis, the block,     *)
(* the stack builder (create_stack) and the forecast assembler (forward).  *)
(*                                                                         *)
(* Tensors are records [shape, den, val]: shape is the tuple of dimension  *)
(* sizes, val maps every index tuple (1-based) to an integer and den is a  *)
(* positive integer; the entry at ix is val[ix] / den, in lowest terms     *)
(* over the tensor.  With integer inputs, max pooling and ReLU every       *)
(* lookback-side tensor (insample_y, residuals, backcast, theta) has       *)
(* den = 1; average pooling, LeakyReLU and PReLU give exact fractions.     *)
(* Forecast-side tensors (block forecasts, the accumulator, the            *)
(* decomposition) are in addition over the common denominator FUnit(h),    *)
(* because linear interpolation of knots to h points produces multiples    *)
(* of 1/(2h): their entry at ix is val[ix] / (den * FUnit(h)).             *)
(* Tanh, Sigmoid, Softplus and SELU have values that are no fractions of   *)
(* their argument; each value is computed in fixed point (28 binary        *)
(* digits) and rounded to the nearest 1/ActUnit, and what is computed      *)
(* from such values carries their rounding.                                *)
(***************************************************************************)
EXTENDS Integers, Sequences, FiniteSets, TLC

VARIABLES pc, cfg, blocks, error, decompose_forecast, windows_batch,
          residuals, insample_mask, forecast, block_forecasts, i,
          block_calls, domain_map_calls, result, identity_basis, theta_in, basis_out

vars == <<pc, cfg, blocks, error, decompose_forecast, windows_batch,
          residuals, insample_mask, forecast, block_forecasts, i,
          block_calls, domain_map_calls, result, identity_basis, theta_in, basis_out>>

(***************************************************************************)
(* Bounds of the model.                                                    *)
(***************************************************************************)
MaxStacks == 2
MaxBlocks == 2
MaxBatch == 2
MaxH == 3
MaxL == 3
MaxFreq == 4
MaxQ == 2
MaxKernel == 3
MaxChan == 2

(***************************************************************************)
(* Arithmetic helpers.                                                     *)
(***************************************************************************)
Max(a, b) == IF a >= b THEN a ELSE b

Min(a, b) == IF a <= b THEN a ELSE b

\* int(np.ceil(a / b)) for a >= 0, b >= 1
CeilDiv(a, b) == (a + b - 1) \div b

Range(s) == {s[n] : n \in DOMAIN s}

RECURSIVE SumSeq(_)
SumSeq(s) == IF s = <<>> THEN 0 ELSE Head(s) + SumSeq(Tail(s))

RECURSIVE Concat(_)
\* the concatenation of a sequence of sequences, in order
Concat(ss) == IF ss = <<>> THEN <<>> ELSE Head(ss) \o Concat(Tail(ss))

\* the denominator of every forecast-side value
FUnit(h) == 2 * h

Abs(a) == IF a >= 0 THEN a ELSE -a

RECURSIVE Gcd(_, _)
Gcd(a, b) == IF b = 0 THEN a ELSE Gcd(b, a % b)

Lcm(a, b) == (a \div Gcd(a, b)) * b

RECURSIVE Factorial(_)
Factorial(n) == IF n <= 1 THEN 1 ELSE n * Factorial(n - 1)

(***************************************************************************)
(* Tensors.                                                                *)
(***************************************************************************)
RECURSIVE Idx(_)
\* all index tuples of a tensor of the given shape
Idx(shape) ==
    IF shape = <<>> THEN {<<>>}
    ELSE {<<n>> \o rest : n \in 1..Head(shape), rest \in Idx(Tail(shape))}

\* a function with all its values computed, once
Strict(f) == IF f = f THEN f ELSE f

\* a tensor of integers.  In general the entry at ix is val[ix] / den, a
\* fraction in lowest terms over the whole tensor (den = 1 where every entry
\* is an integer)
Tensor(shape, val) == [shape |-> shape, den |-> 1, val |-> Strict(val)]

RECURSIVE GcdOver(_, _, _)
\* the greatest common divisor of g and the entries of val at the indices ixs
GcdOver(g, val, ixs) ==
    IF g = 1 \/ ixs = {} THEN g
    ELSE LET ix == CHOOSE x \in ixs : TRUE
         IN GcdOver(Gcd(g, Abs(val[ix])), val, ixs \ {ix})

\* the tensor of the entries val[ix] / den, in lowest terms
TensorOver(shape, val, den) ==
    LET g == GcdOver(den, val, Idx(shape))
    IN [shape |-> shape, den |-> den \div g,
        val |-> Strict([ix \in Idx(shape) |-> val[ix] \div g])]

Rank(t) == Len(t.shape)

\* x.flip(dims=(-1,)) of a 2-D tensor
Flip(t) ==
    LET F(ix) == t.val[<<ix[1], t.shape[2] + 1 - ix[2]>>]
    IN TensorOver(t.shape, [ix \in Idx(t.shape) |-> F(ix)], t.den)

\* x[:, -1:, None] of a 2-D tensor [B, L]: shape [B, 1, 1]
LastNone(t) ==
    LET F(ix) == t.val[<<ix[1], t.shape[2]>>]
    IN TensorOver(<<t.shape[1], 1, 1>>, [ix \in Idx(<<t.shape[1], 1, 1>>) |-> F(ix)], t.den)

\* multiply every entry by a scalar
Scale(t, c) ==
    LET F(ix) == c * t.val[ix]
    IN TensorOver(t.shape, [ix \in Idx(t.shape) |-> F(ix)], t.den)

\* x.repeat(r1, .., rn) with as many factors as x has dimensions
Repeat(t, reps) ==
    LET shp == [d \in 1..Rank(t) |-> t.shape[d] * reps[d]]
        F(ix) == t.val[[d \in 1..Rank(t) |-> ((ix[d] - 1) % t.shape[d]) + 1]]
    IN TensorOver(shp, [ix \in Idx(shp) |-> F(ix)], t.den)

\* torch broadcasting of two tensors of the same rank
Broadcastable(a, b) ==
    /\ Rank(a) = Rank(b)
    /\ \A d \in 1..Rank(a) : a.shape[d] = b.shape[d] \/ a.shape[d] = 1 \/ b.shape[d] = 1

BShape(a, b) == [d \in 1..Rank(a) |-> Max(a.shape[d], b.shape[d])]

\* the index of t that index ix of the broadcast result reads
BIx(t, ix) == [d \in 1..Rank(t) |-> IF t.shape[d] = 1 THEN 1 ELSE ix[d]]

TAdd(a, b) ==
    LET den == Lcm(a.den, b.den)
        F(ix) == a.val[BIx(a, ix)] * (den \div a.den)
                 + b.val[BIx(b, ix)] * (den \div b.den)
    IN TensorOver(BShape(a, b), [ix \in Idx(BShape(a, b)) |-> F(ix)], den)

TSub(a, b) ==
    LET den == Lcm(a.den, b.den)
        F(ix) == a.val[BIx(a, ix)] * (den \div a.den)
                 - b.val[BIx(b, ix)] * (den \div b.den)
    IN TensorOver(BShape(a, b), [ix \in Idx(BShape(a, b)) |-> F(ix)], den)

TMul(a, b) ==
    LET F(ix) == a.val[BIx(a, ix)] * b.val[BIx(b, ix)]
    IN TensorOver(BShape(a, b), [ix \in Idx(BShape(a, b)) |-> F(ix)], a.den * b.den)

\* torch.stack(list) along a new leading axis; it needs equal shapes
Stackable(ts) == \A n \in DOMAIN ts : ts[n].shape = ts[1].shape

RECURSIVE LcmDen(_)
\* the least common denominator of a list of tensors
LcmDen(ts) == IF ts = <<>> THEN 1 ELSE Lcm(Head(ts).den, LcmDen(Tail(ts)))

Stack(ts) ==
    LET den == LcmDen(ts)
        F(ix) == ts[ix[1]].val[Tail(ix)] * (den \div ts[ix[1]].den)
    IN TensorOver(<<Len(ts)>> \o ts[1].shape, [ix \in Idx(<<Len(ts)>> \o ts[1].shape) |-> F(ix)], den)

\* x.permute(1, 0, 2, 3) of a 4-D tensor
Permute1023(t) ==
    LET F(ix) == t.val[<<ix[2], ix[1], ix[3], ix[4]>>]
    IN TensorOver(<<t.shape[2], t.shape[1], t.shape[3], t.shape[4]>>, [ix \in Idx(<<t.shape[2], t.shape[1], t.shape[3], t.shape[4]>>) |-> F(ix)], t.den)

\* x.squeeze(-1): drops the last axis when its size is 1, else returns x
SqueezeLast(t) ==
    IF t.shape[Rank(t)] # 1 THEN t
    ELSE LET F(ix) == t.val[ix \o <<1>>]
         IN TensorOver(SubSeq(t.shape, 1, Rank(t) - 1), [ix \in Idx(SubSeq(t.shape, 1, Rank(t) - 1)) |-> F(ix)], t.den)

\* None where a tensor may stand (an exogenous input that is not supplied)
NoneTensor == [shape |-> <<0>>, den |-> 1, val |-> <<>>]

IsNoneTensor(t) == t.shape = <<0>>

\* row b of a 2-D tensor, as the sequence of its numerators over t.den
Row(t, b) == [n \in 1..t.shape[2] |-> t.val[<<b, n>>]]

(***************************************************************************)
(* Errors: the exception type and the message, as a sequence of the        *)
(* message's parts (formatted values are strings).                         *)
(***************************************************************************)
Raise(type, msg) == [ok |-> FALSE, type |-> type, msg |-> msg]

IndexError == Raise("IndexError", <<"list index out of range">>)

(***************************************************************************)
(* _IdentityBasis                                                          *)
(***************************************************************************)
\* "s in m" of two strings: s occurs in m as a substring
StrIn(s, m) ==
    \E k \in 1..(Len(m) - Len(s) + 1) : SubSeq(m, k, k + Len(s) - 1) = s

\* "'cubic' in interpolation_mode"
IsCubic(mode) == StrIn("cubic", mode)

\* _IdentityBasis.__init__
IdentityBasis_init(backcast_size, forecast_size, interpolation_mode, out_features) ==
    IF ~(interpolation_mode \in {"linear", "nearest"} \/ IsCubic(interpolation_mode))
    THEN Raise("AssertionError", <<>>)
    ELSE [ok |-> TRUE,
          forecast_size |-> forecast_size,
          backcast_size |-> backcast_size,
          interpolation_mode |-> interpolation_mode,
          out_features |-> out_features]

\* nearest interpolation that reads the knot after the one it should
InterpNearestNextKnot(knots, size, t) ==
    LET n == Len(knots)
        src == Min(((t + 1) * n) \div size, n - 1)
    IN FUnit(size) * knots[src + 1]

\* F.interpolate(knots, size, mode='nearest') at output position t (0-based),
\* times FUnit(size): source index floor(t * n / size)
InterpNearest(knots, size, t) ==
    LET n == Len(knots)
        src == Min((t * n) \div size, n - 1)
    IN FUnit(size) * knots[src + 1]

\* linear interpolation that reads zero past the last knot instead of
\* repeating it
InterpLinearZeroPad(knots, size, t) ==
    LET n == Len(knots)
        num == Max(n * (2 * t + 1) - size, 0)
        i0 == num \div (2 * size)
        r == num % (2 * size)
    IN (2 * size - r) * knots[i0 + 1]
       + (IF i0 < n - 1 THEN r * knots[i0 + 2] ELSE 0)

\* F.interpolate(knots, size, mode='linear') (align_corners=False) at output
\* position t (0-based), times FUnit(size): the source coordinate is
\* (n/size)(t + 1/2) - 1/2, clamped at 0, i.e. num / (2 size)
InterpLinear(knots, size, t) ==
    LET n == Len(knots)
        num == Max(n * (2 * t + 1) - size, 0)
        i0 == num \div (2 * size)
        r == num % (2 * size)
        i1 == IF i0 < n - 1 THEN i0 + 1 ELSE i0
    IN (2 * size - r) * knots[i0 + 1] + r * knots[i1 + 1]

Interpolate(mode, knots, size, t) ==
    CASE mode = "nearest" -> InterpNearest(knots, size, t)
      [] mode = "linear" -> InterpLinear(knots, size, t)

\* theta[:, :backcast_size]
BasisBackcast(basis, theta) ==
    LET w == Min(basis.backcast_size, theta.shape[2])
        F(ix) == theta.val[ix]
    IN TensorOver(<<theta.shape[1], w>>, [ix \in Idx(<<theta.shape[1], w>>) |-> F(ix)], theta.den)

\* theta[:, backcast_size:], one row, as a sequence
BasisKnotsFlat(basis, theta, b) ==
    LET row == Row(theta, b)
    IN SubSeq(row, basis.backcast_size + 1, Len(row))

\* knots.reshape(len(knots), out_features, -1): the inferred last dimension
BasisNKnots(basis, theta) ==
    Max(theta.shape[2] - basis.backcast_size, 0) \div basis.out_features

\* whether the reshape with an inferred dimension is defined: the entries
\* left after the backcast (possibly none) divide into out_features rows
BasisReshapeOk(basis, theta) ==
    LET rest == Max(theta.shape[2] - basis.backcast_size, 0)
    IN rest % basis.out_features = 0

\* F.interpolate refuses an input without entries along the resized axis
InterpolateSizeError ==
    Raise("RuntimeError", <<"Input and output sizes should be greater than 0">>)

\* knots[b, q, :] after the reshape (row-major), as a sequence
BasisKnots(basis, theta, b, q) ==
    LET n == BasisNKnots(basis, theta)
        flat == BasisKnotsFlat(basis, theta, b)
    IN [j \in 1..n |-> flat[(q - 1) * n + j]]

\* whether "out += src" is defined: the operands broadcast (aligned at the
\* last axis) and the broadcast shape is the shape of out
InplaceAddOk(out_shape, src_shape) ==
    /\ Len(src_shape) <= Len(out_shape)
    /\ \A d \in 1..Len(src_shape) :
          LET o == out_shape[Len(out_shape) - Len(src_shape) + d]
          IN src_shape[d] = o \/ src_shape[d] = 1

\* whether two shapes broadcast, aligned at the last axis
BroadcastsAligned(a_shape, b_shape) ==
    \A d \in 1..Min(Len(a_shape), Len(b_shape)) :
        LET x == a_shape[Len(a_shape) + 1 - d]
            y == b_shape[Len(b_shape) + 1 - d]
        IN x = y \/ x = 1 \/ y = 1

\* the branch "elif 'cubic' in self.interpolation_mode": knots[:,None,:,:] is
\* [B, 1, Q, n]; F.interpolate(.., size=H, mode='bicubic') resizes both
\* trailing axes to H, so forecast_i[:,0,:,:] is [B, H, H]; it is added in
\* place to the slice [0:B] of torch.zeros((B, H)).  The add first needs the
\* two shapes to broadcast (B against H on the axis before the last), then
\* the broadcast shape to be the shape of the slice.  The result would be
\* the 2-D accumulator, which permute(0, 2, 1) does not accept.
CubicBranch(basis, theta) ==
    LET batch_size == theta.shape[1]
        n_batches == CeilDiv(batch_size, batch_size)
        forecast_shape == <<batch_size, basis.forecast_size>>
        forecast_i_shape == <<batch_size, basis.forecast_size, basis.forecast_size>>
    IN IF BasisNKnots(basis, theta) = 0
       THEN InterpolateSizeError
       ELSE IF \E n \in 1..n_batches : ~BroadcastsAligned(forecast_shape, forecast_i_shape)
       THEN Raise("RuntimeError",
                  <<"The size of tensor a must match the size of tensor b at non-singleton dimension">>)
       ELSE IF \E n \in 1..n_batches : ~InplaceAddOk(forecast_shape, forecast_i_shape)
       THEN Raise("RuntimeError",
                  <<"output with shape doesn't match the broadcast shape">>)
       ELSE Raise("RuntimeError",
                  <<"permute: number of dims don't match in permute">>)

\* _IdentityBasis.forward
IdentityBasis_forward(basis, theta) ==
    IF ~BasisReshapeOk(basis, theta)
    THEN Raise("RuntimeError", <<"shape is invalid for input of size">>)
    ELSE IF IsCubic(basis.interpolation_mode)
    THEN CubicBranch(basis, theta)
    ELSE IF BasisNKnots(basis, theta) = 0
    THEN InterpolateSizeError
    ELSE LET F(ix) == Interpolate(basis.interpolation_mode,
                                  BasisKnots(basis, theta, ix[1], ix[3]),
                                  basis.forecast_size, ix[2] - 1)
         IN [ok |-> TRUE,
             backcast |-> BasisBackcast(basis, theta),
             forecast |-> TensorOver(<<theta.shape[1], basis.forecast_size,
                                       basis.out_features>>, [ix \in Idx(<<theta.shape[1], basis.forecast_size, basis.out_features>>) |-> F(ix)], theta.den)]

(***************************************************************************)
(* NHITSBlock                                                              *)
(***************************************************************************)
ACTIVATIONS == {"ReLU", "Softplus", "Tanh", "SELU", "LeakyReLU", "PReLU", "Sigmoid"}

POOLING == {"MaxPool1d", "AvgPool1d"}

\* the value a freshly built nn.Linear holds at one position: any small
\* integer, fixed by the random seed and the position
InitWeight(seed, blk, lyr, r, c) == ((seed + blk + 2 * lyr + r + 2 * c) % 3) - 1

\* nn.Linear(in_features, out_features)
Linear(seed, blk, lyr, in_features, out_features) ==
    [op |-> "Linear",
     in_features |-> in_features,
     out_features |-> out_features,
     weight |-> [r \in 1..out_features |->
                    [c \in 1..in_features |-> InitWeight(seed, blk, lyr, r, c)]],
     bias |-> [r \in 1..out_features |-> InitWeight(seed, blk, lyr, r, 0)]]

Activ(activation) == [op |-> activation]

\* the loop "for layer in mlp_units" of NHITSBlock.__init__: the layers it
\* appends, two per entry
HiddenLoop(seed, blk, mlp_units, activation) ==
    Concat([n \in 1..Len(mlp_units) |->
              <<Linear(seed, blk, 2 * n, mlp_units[n][1], mlp_units[n][2]),
                Activ(activation)>>])

\* NHITSBlock.__init__; blk and seed only fix the initial weights
NHITSBlock_init(input_size, h, n_theta, mlp_units, basis, futr_input_size, hist_input_size, stat_input_size, n_pool_kernel_size, pooling_mode, dropout_prob, activation, blk, seed) ==
    LET pooled_hist_size == CeilDiv(input_size, n_pool_kernel_size)
        pooled_futr_size == CeilDiv(input_size + h, n_pool_kernel_size)
        mlp_input_size == pooled_hist_size
                          + hist_input_size * pooled_hist_size
                          + futr_input_size * pooled_futr_size + stat_input_size
    IN IF activation \notin ACTIVATIONS
       THEN Raise("AssertionError", <<activation, " is not in ", "ACTIVATIONS">>)
       ELSE IF pooling_mode \notin POOLING
       THEN Raise("AssertionError", <<pooling_mode, " is not in ", "POOLING">>)
       ELSE IF Len(mlp_units) = 0
       THEN IndexError
       ELSE IF dropout_prob > 0
       THEN Raise("NotImplementedError", <<"dropout">>)
       ELSE [ok |-> TRUE,
             dropout_prob |-> dropout_prob,
             futr_input_size |-> futr_input_size,
             hist_input_size |-> hist_input_size,
             stat_input_size |-> stat_input_size,
             pooling_layer |-> [mode |-> pooling_mode,
                                kernel_size |-> n_pool_kernel_size,
                                stride |-> n_pool_kernel_size,
                                ceil_mode |-> TRUE],
             layers |-> <<Linear(seed, blk, 1, mlp_input_size, mlp_units[1][1])>>
                        \o HiddenLoop(seed, blk, mlp_units, activation)
                        \o <<Linear(seed, blk, 2 * Len(mlp_units) + 2,
                                    mlp_units[Len(mlp_units)][2], n_theta)>>,
             basis |-> basis]

\* the denominator pooling adds: 1 for the maximum; for the average a
\* common multiple of the lengths 1..kernel_size a window can have
PoolUnit(layer) ==
    IF layer.mode = "AvgPool1d" THEN Factorial(layer.kernel_size) ELSE 1

\* the largest entry of a non-empty sequence
MaxOf(window) == CHOOSE m \in Range(window) : \A x \in Range(window) : x <= m

\* the reduction of one pooling window (a sequence), times unit; the average
\* is over the entries the window has, a truncated window included
PoolWindow(mode, window, unit) ==
    CASE mode = "MaxPool1d" -> unit * MaxOf(window)
      [] mode = "AvgPool1d" -> (unit * SumSeq(window)) \div Len(window)

\* the pooling layer (kernel_size, stride=kernel_size, ceil_mode=True) on one
\* channel: ceil(n / k) windows, the last one truncated; the values are
\* numerators over PoolUnit(layer)
Pool1d(layer, s) ==
    LET k == layer.kernel_size
    IN [j \in 1..CeilDiv(Len(s), k) |->
          PoolWindow(layer.mode, SubSeq(s, (j - 1) * k + 1, Min(j * k, Len(s))),
                     PoolUnit(layer))]

\* one batch row of a 3-D exogenous tensor [B, T, C]: permute, pool each
\* channel along T, permute back and flatten [T', C] row-major
PoolFlat(layer, x, b) ==
    LET chan(c) == Pool1d(layer, [t \in 1..x.shape[2] |-> x.val[<<b, t, c>>]])
        T1 == CeilDiv(x.shape[2], layer.kernel_size)
    IN Concat([j \in 1..T1 |-> [c \in 1..x.shape[3] |-> chan(c)[j]]])

\* stat_exog.reshape(batch_size, -1), one row
StatFlat(x, b) == [c \in 1..x.shape[2] |-> x.val[<<b, c>>]]

\* c times every entry of a sequence
ScaleSeq(s, c) == [n \in DOMAIN s |-> c * s[n]]

\* the denominator of an exogenous tensor, 1 where the block does not read it
ExogDen(size, x) == IF size > 0 THEN x.den ELSE 1

\* the denominator of the vector NHITSBlock.forward hands to self.layers
FeaturesDen(block, insample_y, futr_exog, hist_exog, stat_exog) ==
    PoolUnit(block.pooling_layer) * insample_y.den
    * ExogDen(block.hist_input_size, hist_exog)
    * ExogDen(block.futr_input_size, futr_exog)
    * ExogDen(block.stat_input_size, stat_exog)

\* the vector with the future group placed before the historical one
FeaturesFutrFirst(block, insample_y, futr_exog, hist_exog, stat_exog, b) ==
    LET den == FeaturesDen(block, insample_y, futr_exog, hist_exog, stat_exog)
        unit == PoolUnit(block.pooling_layer)
    IN ScaleSeq(Pool1d(block.pooling_layer, Row(insample_y, b)),
                den \div (unit * insample_y.den))
       \o (IF block.futr_input_size > 0
           THEN ScaleSeq(PoolFlat(block.pooling_layer, futr_exog, b),
                         den \div (unit * futr_exog.den))
           ELSE <<>>)
       \o (IF block.hist_input_size > 0
           THEN ScaleSeq(PoolFlat(block.pooling_layer, hist_exog, b),
                         den \div (unit * hist_exog.den))
           ELSE <<>>)
       \o (IF block.stat_input_size > 0
           THEN ScaleSeq(StatFlat(stat_exog, b), den \div stat_exog.den)
           ELSE <<>>)

\* the vector NHITSBlock.forward hands to self.layers, for batch row b: the
\* numerators over FeaturesDen
Features(block, insample_y, futr_exog, hist_exog, stat_exog, b) ==
    LET den == FeaturesDen(block, insample_y, futr_exog, hist_exog, stat_exog)
        unit == PoolUnit(block.pooling_layer)
    IN ScaleSeq(Pool1d(block.pooling_layer, Row(insample_y, b)),
                den \div (unit * insample_y.den))
       \o (IF block.hist_input_size > 0
           THEN ScaleSeq(PoolFlat(block.pooling_layer, hist_exog, b),
                         den \div (unit * hist_exog.den))
           ELSE <<>>)
       \o (IF block.futr_input_size > 0
           THEN ScaleSeq(PoolFlat(block.pooling_layer, futr_exog, b),
                         den \div (unit * futr_exog.den))
           ELSE <<>>)
       \o (IF block.stat_input_size > 0
           THEN ScaleSeq(StatFlat(stat_exog, b), den \div stat_exog.den)
           ELSE <<>>)

\* a vector: the entry at n is val[n] / den
Vector(den, val) == [den |-> den, val |-> val]

\* the vector with all its entries computed
StrictVector(x) == Vector(x.den, Strict(x.val))

\* a / b rounded to the nearest integer, b > 0
RoundDiv(a, b) == (a + b \div 2) \div b

\* the unit of the arithmetic of the activations whose values are not
\* fractions of their argument: it works in multiples of 1 / FixOne (2^28)
FixOne == 268435456

\* FixHalf * FixHalf = FixOne
FixHalf == 16384

\* the denominator of the values those activations return: the value of the
\* real function rounded to the nearest 1 / ActUnit.  The arithmetic behind
\* it is exact to some 20 / FixOne, so the rounding is that of the real
\* value unless the real value lies that close to the middle between two
\* multiples of 1 / ActUnit
ActUnit == 1000

\* (a1 FixHalf + a0) * (b1 FixHalf + b0) / FixOne
MulParts(a1, a0, b1, b0) ==
    a1 * b1 + RoundDiv(a1 * b0 + a0 * b1 + (a0 * b0) \div FixHalf, FixHalf)

\* a * b / FixOne for 0 <= a, b <= FixOne
MulFix(a, b) ==
    MulParts(a \div FixHalf, a % FixHalf, b \div FixHalf, b % FixHalf)

RECURSIVE DivFix(_, _, _)
\* r / b for 0 <= r < b, in multiples of 1 / FixOne: the binary digits from
\* the one of weight w on (w = FixOne / 2 for the whole quotient)
DivFix(r, b, w) ==
    IF w = 0 THEN 0
    ELSE IF 2 * r >= b THEN w + DivFix(2 * r - b, b, w \div 2)
    ELSE DivFix(2 * r, b, w \div 2)

\* the fractional part of n / d for n >= 0, in multiples of 1 / FixOne
Fixed(n, d) == DivFix(n % d, d, FixOne \div 2)

\* a / b for 0 <= a <= b, in multiples of 1 / FixOne
FixDiv(a, b) == IF a = b THEN FixOne ELSE DivFix(a, b, FixOne \div 2)

\* (t + r / FixHalf) / FixHalf rounded, for r < ActUnit * FixHalf
UnitsOf(t, r) == t \div FixHalf + RoundDiv((t % FixHalf) * FixHalf + r, FixOne)

\* x / FixOne in multiples of 1 / ActUnit, rounded, for 0 <= x < 4 FixOne
ToUnits(x) == UnitsOf(ActUnit * (x \div FixHalf), ActUnit * (x % FixHalf))

RECURSIVE ExpNegInt(_)
\* exp(-k) for an integer k >= 0, in multiples of 1 / FixOne; 98751886 /
\* FixOne is exp(-1)
ExpNegInt(k) ==
    IF k = 0 THEN FixOne
    ELSE IF k > 20 THEN 0
    ELSE MulFix(ExpNegInt(k - 1), 98751886)

RECURSIVE ExpNegSeries(_, _, _)
\* the alternating series of exp(-f / FixOne), 0 <= f < FixOne, from the
\* term of order j on
ExpNegSeries(f, j, term) ==
    IF term = 0 THEN 0
    ELSE term - ExpNegSeries(f, j + 1, RoundDiv(MulFix(term, f), j + 1))

\* exp(-n / d) for n >= 0 and d >= 1, in multiples of 1 / FixOne
ExpNeg(n, d) ==
    IF n \div d > 20 THEN 0
    ELSE MulFix(ExpNegInt(n \div d), ExpNegSeries(Fixed(n, d), 0, FixOne))

RECURSIVE AtanhSeries(_, _, _)
\* the series w + w^3 / 3 + w^5 / 5 + .. from the term of order j on; w2 is
\* w squared and pow is w to the power j
AtanhSeries(w2, j, pow) ==
    IF pow = 0 THEN 0
    ELSE RoundDiv(pow, j) + AtanhSeries(w2, j + 2, MulFix(pow, w2))

\* 2 atanh(w / FixOne), in multiples of 1 / FixOne
Atanh2(w) == 2 * AtanhSeries(MulFix(w, w), 1, w)

\* log(1 + e / FixOne) for 0 <= e <= FixOne, as 2 atanh(e / (2 FixOne + e))
Log1p(e) == Atanh2(FixDiv(e, 2 * FixOne + e))

\* -1, 0 or 1
Sign(n) == IF n > 0 THEN 1 ELSE IF n < 0 THEN -1 ELSE 0

\* (1 - e) / (1 + e) for e / FixOne = exp(-2 |x|), over ActUnit
TanhOf(e) == ToUnits(FixDiv(FixOne - e, FixOne + e))

\* nn.Tanh at n / d, over ActUnit
Tanh(n, d) ==
    Sign(n) * TanhOf(IF Abs(n) \div d > 10 THEN 0 ELSE ExpNeg(2 * Abs(n), d))

\* 1 / (1 + e) for x >= 0 and e / (1 + e) for x < 0, where e / FixOne =
\* exp(-|x|), over ActUnit
SigmoidOf(n, e) == ToUnits(FixDiv(IF n >= 0 THEN FixOne ELSE e, FixOne + e))

\* nn.Sigmoid at n / d, over ActUnit
Sigmoid(n, d) == SigmoidOf(n, ExpNeg(Abs(n), d))

\* nn.Softplus (beta=1, threshold=20) at n / d, over ActUnit: the argument
\* itself above the threshold, else max(x, 0) + log(1 + exp(-|x|))
Softplus(n, d) ==
    IF n > 20 * d THEN ActUnit * (n \div d) + RoundDiv(ActUnit * (n % d), d)
    ELSE ActUnit * (Max(n, 0) \div d)
         + ToUnits(Fixed(Max(n, 0), d) + Log1p(ExpNeg(Abs(n), d)))

\* (scale - 1) * k for an integer k >= 0, scale the constant of nn.SELU,
\* 1.0507009873554805: scale - 1 is 13609943 / FixOne, and 13609943 is
\* 830 * FixHalf + 11223.  The integer part and the fractional part, the
\* latter in multiples of 1 / FixOne
ScaleExcess(k) ==
    [int |-> (k * 830 + (k * 11223) \div FixHalf) \div FixHalf,
     frac |-> ((k * 830 + (k * 11223) \div FixHalf) % FixHalf) * FixHalf
              + ((k * 11223) % FixHalf)]

\* scale * (k + f / FixOne) over ActUnit, x being ScaleExcess(k)
SELUPos(k, f, x) ==
    ActUnit * (k + x.int) + ToUnits(f + x.frac + MulFix(13609943, f))

\* scale * alpha * u / FixOne over ActUnit
SELUNeg(u) == ToUnits(u + MulFix(203500742, u))

\* nn.SELU at n / d, over ActUnit: scale * x for x > 0 and
\* scale * alpha * (exp(x) - 1) otherwise; scale * alpha is
\* 1.7580993408473769, that is 1 + 203500742 / FixOne
SELU(n, d) ==
    IF n > 0 THEN SELUPos(n \div d, Fixed(n, d), ScaleExcess(n \div d))
    ELSE -SELUNeg(FixOne - ExpNeg(-n, d))

\* the activation module applied to a vector
Activation(op, x) ==
    CASE op = "ReLU" -> Vector(x.den, [n \in DOMAIN x.val |-> Max(x.val[n], 0)])
      [] op = "LeakyReLU" ->
            Vector(100 * x.den,
                   [n \in DOMAIN x.val |->
                       IF x.val[n] >= 0 THEN 100 * x.val[n] ELSE x.val[n]])
      [] op = "PReLU" ->
            Vector(4 * x.den,
                   [n \in DOMAIN x.val |->
                       IF x.val[n] >= 0 THEN 4 * x.val[n] ELSE x.val[n]])
      [] op = "Tanh" -> Vector(ActUnit, [n \in DOMAIN x.val |-> Tanh(x.val[n], x.den)])
      [] op = "Sigmoid" ->
            Vector(ActUnit, [n \in DOMAIN x.val |-> Sigmoid(x.val[n], x.den)])
      [] op = "Softplus" ->
            Vector(ActUnit, [n \in DOMAIN x.val |-> Softplus(x.val[n], x.den)])
      [] op = "SELU" -> Vector(ActUnit, [n \in DOMAIN x.val |-> SELU(x.val[n], x.den)])

\* one layer of nn.Sequential applied to a vector
ApplyLayer(layer, x) ==
    IF layer.op = "Linear"
    THEN Vector(x.den,
                Strict([r \in 1..layer.out_features |->
                    SumSeq([c \in 1..layer.in_features |->
                               layer.weight[r][c] * x.val[c]])
                    + layer.bias[r] * x.den]))
    ELSE StrictVector(Activation(layer.op, x))

\* whether a layer accepts a vector of this width
LayerAccepts(layer, width) == layer.op # "Linear" \/ layer.in_features = width

LayerWidth(layer, width) == IF layer.op = "Linear" THEN layer.out_features ELSE width

RECURSIVE SequentialOk(_, _)
\* whether nn.Sequential(*layers) runs on a vector of this width
SequentialOk(layers, width) ==
    \/ layers = <<>>
    \/ /\ LayerAccepts(Head(layers), width)
       /\ SequentialOk(Tail(layers), LayerWidth(Head(layers), width))

RECURSIVE Sequential(_, _)
\* nn.Sequential(*layers)(x)
Sequential(layers, x) ==
    IF layers = <<>> THEN x
    ELSE Sequential(Tail(layers), ApplyLayer(Head(layers), x))

\* NHITSBlock.forward
NHITSBlock_forward(block, insample_y, futr_exog, hist_exog, stat_exog) ==
    LET B == insample_y.shape[1]
        feats == Strict([b \in 1..B |->
                    Features(block, insample_y, futr_exog, hist_exog, stat_exog, b)])
    IN IF block.hist_input_size > 0 /\ IsNoneTensor(hist_exog)
       THEN Raise("AttributeError", <<"'NoneType' object has no attribute ", "permute">>)
       ELSE IF block.futr_input_size > 0 /\ IsNoneTensor(futr_exog)
       THEN Raise("AttributeError", <<"'NoneType' object has no attribute ", "permute">>)
       ELSE IF block.stat_input_size > 0 /\ IsNoneTensor(stat_exog)
       THEN Raise("AttributeError", <<"'NoneType' object has no attribute ", "reshape">>)
       ELSE IF ~SequentialOk(block.layers, Len(feats[1]))
       THEN Raise("RuntimeError", <<"mat1 and mat2 shapes cannot be multiplied">>)
       ELSE LET den == FeaturesDen(block, insample_y, futr_exog, hist_exog, stat_exog)
                rows == Strict([b \in 1..B |->
                            Sequential(block.layers, Vector(den, feats[b]))])
                F(ix) == rows[ix[1]].val[ix[2]]
                theta == TensorOver(<<B, Len(rows[1].val)>>, [ix \in Idx(<<B, Len(rows[1].val)>>) |-> F(ix)], rows[1].den)
            IN IdentityBasis_forward(block.basis, theta)

(***************************************************************************)
(* NHITS: construction                                                     *)
(***************************************************************************)
\* n_theta computed with the first stack's ratio for every stack
n_theta_first_ratio(c, si) ==
    c.input_size
    + c.loss.outputsize_multiplier * Max(c.h \div c.n_freq_downsample[1], 1)

\* "n_theta = (input_size + outputsize_multiplier * max(h // n_freq_downsample[i], 1))"
n_theta_of(c, si) ==
    c.input_size
    + c.loss.outputsize_multiplier * Max(c.h \div c.n_freq_downsample[si], 1)

\* one pass of the inner loop body of create_stack, for stack si (1-based);
\* blk is the position of the block in block_list
create_stack_block(c, si, blk) ==
    IF c.stack_types[si] # "identity"
    THEN Raise("AssertionError", <<"Block type ", c.stack_types[si], " not found!">>)
    ELSE IF si > Len(c.n_freq_downsample)
    THEN IndexError
    ELSE LET n_theta == n_theta_of(c, si)
             basis == IdentityBasis_init(c.input_size, c.h, c.interpolation_mode,
                                         c.loss.outputsize_multiplier)
         IN IF ~basis.ok THEN basis
            ELSE IF si > Len(c.n_pool_kernel_size)
            THEN IndexError
            ELSE NHITSBlock_init(c.input_size, c.h, n_theta, c.mlp_units, basis,
                                 c.futr_input_size, c.hist_input_size,
                                 c.stat_input_size, c.n_pool_kernel_size[si],
                                 c.pooling_mode, c.dropout_prob_theta,
                                 c.activation, blk, c.random_seed)

RECURSIVE create_stack_loop(_, _, _, _)
\* the two nested loops of create_stack, at stack si and block block_id
create_stack_loop(c, si, block_id, block_list) ==
    IF si > Len(c.stack_types)
    THEN [ok |-> TRUE, block_list |-> block_list]
    ELSE IF si > Len(c.n_blocks)
    THEN IndexError
    ELSE IF block_id > c.n_blocks[si]
    THEN create_stack_loop(c, si + 1, 1, block_list)
    ELSE LET blk == create_stack_block(c, si, Len(block_list) + 1)
         IN IF ~blk.ok THEN blk
            ELSE create_stack_loop(c, si, block_id + 1, Append(block_list, blk))

\* NHITS.create_stack
create_stack(c) == create_stack_loop(c, 1, 1, <<>>)

None == "None"

\* NHITS.__init__, on the arguments cfg
NHITS_init ==
    /\ pc = "new"
    /\ LET r == create_stack(cfg)
       IN IF r.ok
          THEN /\ blocks' = r.block_list
               /\ error' = None
               /\ pc' = "ready"
          ELSE /\ blocks' = None
               /\ error' = r
               /\ pc' = "failed"
    /\ UNCHANGED <<identity_basis, theta_in, basis_out>>
    /\ UNCHANGED <<cfg, decompose_forecast, windows_batch, residuals,
                   insample_mask, forecast, block_forecasts, i, block_calls,
                   domain_map_calls, result>>

(***************************************************************************)
(* NHITS: forward                                                          *)
(***************************************************************************)
\* loss.domain_map of the loss collaborator: the point losses drop a last
\* axis of size 1, the quantile losses return their argument, and a
\* distribution loss maps values into the parameter's domain
domain_map(kind, y_hat) ==
    CASE kind = "squeeze" -> SqueezeLast(y_hat)
      [] kind = "identity" -> y_hat
      [] kind = "positive" ->
            LET F(ix) == Max(y_hat.val[ix], 0) IN TensorOver(y_hat.shape, [ix \in Idx(y_hat.shape) |-> F(ix)], y_hat.den)

\* "Parse windows_batch" .. "block_forecasts = [ forecast.repeat(1, self.h, 1) ]"
forward_init(c, wb) ==
    LET level == Scale(LastNone(wb.insample_y), FUnit(c.h))
    IN [ok |-> TRUE,
        residuals |-> Flip(wb.insample_y),
        insample_mask |-> Flip(wb.insample_mask),
        forecast |-> level,
        block_forecasts |-> <<Repeat(level, <<1, c.h, 1>>)>>]

\* the update without the mask
update_residuals_unmasked(res, backcast, mask) == TSub(res, backcast)

\* "residuals = (residuals - backcast) * insample_mask"
update_residuals(res, backcast, mask) == TMul(TSub(res, backcast), mask)

\* the update that drops what was accumulated
update_forecast_overwrite(fc, block_forecast) == block_forecast

\* "forecast = forecast + block_forecast"
update_forecast(fc, block_forecast) == TAdd(fc, block_forecast)

\* "if self.decompose_forecast: block_forecasts.append(block_forecast)"
update_block_forecasts(decompose, bfs, block_forecast) ==
    IF decompose THEN Append(bfs, block_forecast) ELSE bfs

\* the loop body that appends the accumulator instead of the block's forecast
forward_block_appends_total(st, block, wb, decompose) ==
    LET r == NHITSBlock_forward(block, st.residuals, wb.futr_exog,
                                wb.hist_exog, wb.stat_exog)
        total == update_forecast(st.forecast, r.forecast)
    IN [ok |-> TRUE,
        residuals |-> update_residuals(st.residuals, r.backcast, st.insample_mask),
        insample_mask |-> st.insample_mask,
        forecast |-> total,
        block_forecasts |-> update_block_forecasts(decompose, st.block_forecasts,
                                                   total),
        call |-> [insample_y |-> st.residuals,
                  backcast |-> r.backcast,
                  block_forecast |-> r.forecast]]

\* the body of "for i, block in enumerate(self.blocks)", from the loop state st
forward_block(st, block, wb, decompose) ==
    LET r == NHITSBlock_forward(block, st.residuals, wb.futr_exog,
                                wb.hist_exog, wb.stat_exog)
    IN IF ~r.ok THEN r
       ELSE IF ~Broadcastable(st.residuals, r.backcast)
               \/ ~Broadcastable(st.forecast, r.forecast)
       THEN Raise("RuntimeError", <<"The size of tensor a must match">>)
       ELSE [ok |-> TRUE,
             residuals |-> update_residuals(st.residuals, r.backcast,
                                            st.insample_mask),
             insample_mask |-> st.insample_mask,
             forecast |-> update_forecast(st.forecast, r.forecast),
             block_forecasts |-> update_block_forecasts(decompose,
                                     st.block_forecasts, r.forecast),
             call |-> [insample_y |-> st.residuals,
                       backcast |-> r.backcast,
                       block_forecast |-> r.forecast]]

RECURSIVE forward_loop(_, _, _, _, _)
\* the loop state after the first n blocks
forward_loop(st, blks, n, wb, decompose) ==
    IF n = 0 THEN st
    ELSE LET prev == forward_loop(st, blks, n - 1, wb, decompose)
         IN IF ~prev.ok THEN prev
            ELSE forward_block(prev, blks[n], wb, decompose)

\* "if self.decompose_forecast: stack, permute, squeeze, return block_forecasts
\*  else: return forecast"
forward_return(decompose, mapped, bfs) ==
    IF decompose
    THEN IF Stackable(bfs)
         THEN [ok |-> TRUE, result |-> SqueezeLast(Permute1023(Stack(bfs)))]
         ELSE Raise("RuntimeError", <<"stack expects each tensor to be equal size">>)
    ELSE [ok |-> TRUE, result |-> mapped]

\* NHITS.forward as a function of the model, the batch and the flag; handed
\* is the tensor it hands to domain_map
NHITS_forward(c, blks, wb, decompose) ==
    LET st == forward_loop(forward_init(c, wb), blks, Len(blks), wb, decompose)
    IN IF ~st.ok THEN st
       ELSE LET ret == forward_return(decompose,
                           domain_map(c.loss.domain_map, st.forecast),
                           st.block_forecasts)
            IN IF ~ret.ok THEN ret
               ELSE [ok |-> TRUE, result |-> ret.result, handed |-> st.forecast]

\* the call of forward, up to the loop
ForwardBegin(wb, decompose) ==
    /\ pc = "ready"
    /\ decompose_forecast' = decompose
    /\ windows_batch' = wb
    /\ LET st == forward_init(cfg, wb)
       IN /\ residuals' = st.residuals
          /\ insample_mask' = st.insample_mask
          /\ forecast' = st.forecast
          /\ block_forecasts' = st.block_forecasts
    /\ i' = 1
    /\ block_calls' = <<>>
    /\ domain_map_calls' = <<>>
    /\ pc' = "loop"
    /\ UNCHANGED <<identity_basis, theta_in, basis_out>>
    /\ UNCHANGED <<cfg, blocks, error, result>>

\* the iteration that walks the blocks from the last to the first
PerBlockReversed ==
    /\ pc = "loop"
    /\ i <= Len(blocks)
    /\ LET st == [ok |-> TRUE, residuals |-> residuals,
                  insample_mask |-> insample_mask, forecast |-> forecast,
                  block_forecasts |-> block_forecasts]
           r == forward_block(st, blocks[Len(blocks) + 1 - i], windows_batch,
                              decompose_forecast)
       IN IF ~r.ok
          THEN /\ error' = r
               /\ pc' = "raised"
               /\ UNCHANGED <<residuals, forecast, block_forecasts, i, block_calls>>
          ELSE /\ residuals' = r.residuals
               /\ forecast' = r.forecast
               /\ block_forecasts' = r.block_forecasts
               /\ i' = i + 1
               /\ block_calls' = Append(block_calls, r.call)
               /\ UNCHANGED <<error, pc>>
    /\ UNCHANGED <<identity_basis, theta_in, basis_out>>
    /\ UNCHANGED <<cfg, blocks, decompose_forecast, windows_batch, insample_mask,
                   domain_map_calls, result>>

\* one iteration of "for i, block in enumerate(self.blocks)"
PerBlock ==
    /\ pc = "loop"
    /\ i <= Len(blocks)
    /\ LET st == [ok |-> TRUE, residuals |-> residuals,
                  insample_mask |-> insample_mask, forecast |-> forecast,
                  block_forecasts |-> block_forecasts]
           r == forward_block(st, blocks[i], windows_batch, decompose_forecast)
       IN IF ~r.ok
          THEN /\ error' = r
               /\ pc' = "raised"
               /\ UNCHANGED <<residuals, forecast, block_forecasts, i, block_calls>>
          ELSE /\ residuals' = r.residuals
               /\ forecast' = r.forecast
               /\ block_forecasts' = r.block_forecasts
               /\ i' = i + 1
               /\ block_calls' = Append(block_calls, r.call)
               /\ UNCHANGED <<error, pc>>
    /\ UNCHANGED <<identity_basis, theta_in, basis_out>>
    /\ UNCHANGED <<cfg, blocks, decompose_forecast, windows_batch, insample_mask,
                   domain_map_calls, result>>

\* domain_map called on the path that returns its result only
DomainMapOnReturnPath ==
    /\ pc = "loop"
    /\ i > Len(blocks)
    /\ domain_map_calls' = IF decompose_forecast THEN domain_map_calls
                           ELSE Append(domain_map_calls, forecast)
    /\ forecast' = IF decompose_forecast THEN forecast
                   ELSE domain_map(cfg.loss.domain_map, forecast)
    /\ pc' = "mapped"
    /\ UNCHANGED <<identity_basis, theta_in, basis_out>>
    /\ UNCHANGED <<cfg, blocks, error, decompose_forecast, windows_batch, residuals,
                   insample_mask, block_forecasts, i, block_calls, result>>

\* "forecast = self.loss.domain_map(forecast)", after the last block
DomainMap ==
    /\ pc = "loop"
    /\ i > Len(blocks)
    /\ domain_map_calls' = Append(domain_map_calls, forecast)
    /\ forecast' = domain_map(cfg.loss.domain_map, forecast)
    /\ pc' = "mapped"
    /\ UNCHANGED <<identity_basis, theta_in, basis_out>>
    /\ UNCHANGED <<cfg, blocks, error, decompose_forecast, windows_batch, residuals,
                   insample_mask, block_forecasts, i, block_calls, result>>

\* the two return statements
Return ==
    /\ pc = "mapped"
    /\ LET r == forward_return(decompose_forecast, forecast, block_forecasts)
       IN IF r.ok
          THEN /\ result' = r.result
               /\ pc' = "done"
               /\ UNCHANGED error
          ELSE /\ error' = r
               /\ pc' = "raised"
               /\ UNCHANGED result
    /\ UNCHANGED <<identity_basis, theta_in, basis_out>>
    /\ UNCHANGED <<cfg, blocks, decompose_forecast, windows_batch, residuals,
                   insample_mask, forecast, block_forecasts, i, block_calls,
                   domain_map_calls>>

\* one call of _IdentityBasis.forward on its own
BasisForward ==
    /\ pc = "basis"
    /\ basis_out' = IdentityBasis_forward(identity_basis, theta_in)
    /\ pc' = "basis_done"
    /\ UNCHANGED <<identity_basis, theta_in>>
    /\ UNCHANGED <<cfg, blocks, error, decompose_forecast, windows_batch, residuals,
                   insample_mask, forecast, block_forecasts, i, block_calls,
                   domain_map_calls, result>>

(***************************************************************************)
(* Inputs.                                                                 *)
(***************************************************************************)
RECURSIVE SeqsOfLen(_, _)
SeqsOfLen(S, n) ==
    IF n = 0 THEN {<<>>}
    ELSE {<<x>> \o rest : x \in S, rest \in SeqsOfLen(S, n - 1)}

SeqsUpTo(S, n) == UNION {SeqsOfLen(S, m) : m \in 0..n}

\* the per-stack lists the stacks draw their entries from, where the entries
\* themselves are not varied
PoolPattern == <<2, 3, 2, 1, 2>>

FreqPattern == <<2, 1, 3, 1, 2>>

\* a configuration; the arguments are the fields that vary
Config(h, input_size, stack_types, n_blocks, mlp_units, n_pool_kernel_size, n_freq_downsample, modes, dropout_prob_theta, loss) ==
    [h |-> h, input_size |-> input_size,
     futr_input_size |-> 0, hist_input_size |-> 0, stat_input_size |-> 0,
     stack_types |-> stack_types,
     n_blocks |-> n_blocks,
     mlp_units |-> mlp_units,
     n_pool_kernel_size |-> n_pool_kernel_size,
     n_freq_downsample |-> n_freq_downsample,
     pooling_mode |-> modes.pooling_mode,
     interpolation_mode |-> modes.interpolation_mode,
     dropout_prob_theta |-> dropout_prob_theta,
     activation |-> modes.activation,
     loss |-> loss,
     random_seed |-> 1]

Modes(pooling_mode, interpolation_mode, activation) ==
    [pooling_mode |-> pooling_mode, interpolation_mode |-> interpolation_mode,
     activation |-> activation]

Identities(n) == [s \in 1..n |-> "identity"]

\* the interpolation mode, the loss and the pooling mode of the forward runs;
\* with the average the pooled values, and what the blocks compute from
\* them, are fractions
FwdChoices ==
    {<<"nearest", [outputsize_multiplier |-> 1, domain_map |-> "squeeze"],
       "MaxPool1d">>,
     <<"linear", [outputsize_multiplier |-> 1, domain_map |-> "squeeze"],
       "AvgPool1d">>,
     <<"linear", [outputsize_multiplier |-> 2, domain_map |-> "identity"],
       "MaxPool1d">>,
     <<"linear", [outputsize_multiplier |-> 1, domain_map |-> "positive"],
       "AvgPool1d">>}

\* the configurations the forward runs are built from
FwdConfigs ==
    {Config(2, 2, Identities(Len(nb)), nb, <<<<2, 2>>>>,
            SubSeq(PoolPattern, 1, Len(nb)), SubSeq(FreqPattern, 1, Len(nb)),
            Modes(ch[3], ch[1], "ReLU"), 0, ch[2]) :
        nb \in SeqsUpTo(0..MaxBlocks, MaxStacks), ch \in FwdChoices}

\* configurations with consistent lists, over all sizes
ArithConfig(h, L, q, nf) ==
    Config(h, L, Identities(Len(nf)), [s \in 1..Len(nf) |-> 1 + (s % 2)],
           <<<<2, 2>>>>, SubSeq(PoolPattern, 1, Len(nf)), nf,
           Modes("MaxPool1d", "linear", "ReLU"), 0,
           [outputsize_multiplier |-> q, domain_map |-> "identity"])

ModeChoices ==
    {Modes("MaxPool1d", "linear", "ReLU"), Modes("AvgPool1d", "cubic", "Tanh"),
     Modes("SumPool1d", "linear", "ReLU"), Modes("MaxPool1d", "spline", "ReLU"),
     Modes("MaxPool1d", "linear", "Swish")}

\* dropout_prob_theta, in tenths
DropoutChoices == {0, 5}

\* configurations whose lists need not agree and whose options need not be valid
AnyConfig(st, nb, nm, np, nf, m, dp) ==
    Config(2, 2, st, nb, [n \in 1..nm |-> <<2, 2>>],
           SubSeq(PoolPattern, 1, np), SubSeq(FreqPattern, 1, nf), m, dp,
           [outputsize_multiplier |-> 1, domain_map |-> "squeeze"])

YVals == {-1, 2}

\* one window: the lookback values and the validity mask
Windows(L) == [y : [1..L -> YVals], mask : [1..L -> {0, 1}]]

\* a batch of B windows: w, and companions of w with other values and masks
BatchOf(w, B) ==
    LET L == Len(w.y)
        Fy(ix) == IF ix[1] % 2 = 1 THEN w.y[ix[2]] + (ix[1] - 1)
                  ELSE (ix[1] - 1) - w.y[ix[2]]
        Fm(ix) == IF ix[1] % 2 = 1 THEN w.mask[ix[2]] ELSE 1 - w.mask[ix[2]]
    IN [insample_y |-> Tensor(<<B, L>>, [ix \in Idx(<<B, L>>) |-> Fy(ix)]),
        insample_mask |-> Tensor(<<B, L>>, [ix \in Idx(<<B, L>>) |-> Fm(ix)]),
        futr_exog |-> NoneTensor, hist_exog |-> NoneTensor,
        stat_exog |-> NoneTensor]

\* the batches of the forward runs: a single window and a full batch
Batches(L) == {BatchOf(w, B) : w \in Windows(L), B \in {1, MaxBatch}}

(***************************************************************************)
(* Specifications.                                                         *)
(***************************************************************************)
\* the state before construction, the constructor's arguments chosen
InitWith(c) ==
    /\ pc = "new"
    /\ cfg = c
    /\ blocks = None
    /\ error = None
    /\ decompose_forecast = FALSE
    /\ windows_batch = None
    /\ residuals = None
    /\ insample_mask = None
    /\ forecast = None
    /\ block_forecasts = <<>>
    /\ i = 0
    /\ block_calls = <<>>
    /\ domain_map_calls = <<>>
    /\ result = None
    /\ identity_basis = None
    /\ theta_in = None
    /\ basis_out = None

Init == \E c \in FwdConfigs : InitWith(c)

\* construction of a model and one forward call on it
Next ==
    \/ NHITS_init
    \/ /\ pc = "ready"
       /\ \E wb \in Batches(cfg.input_size), d \in BOOLEAN : ForwardBegin(wb, d)
    \/ PerBlock
    \/ DomainMap
    \/ Return

Spec == Init /\ [][Next]_vars

\* construction alone, over the wider set of configurations
InitBuild ==
    \/ \E h \in 1..MaxH, L \in 1..MaxL, q \in 1..MaxQ,
          nf \in SeqsUpTo(1..MaxFreq, MaxStacks) :
           InitWith(ArithConfig(h, L, q, nf))
    \/ \E st \in SeqsUpTo({"identity", "trend"}, MaxStacks),
          nb \in SeqsUpTo({0, 1}, MaxStacks + 1),
          nm \in 0..MaxStacks + 1, np \in 0..MaxStacks + 1,
          nf \in 0..MaxStacks + 1, m \in ModeChoices, dp \in DropoutChoices :
           InitWith(AnyConfig(st, nb, nm, np, nf, m, dp))

NextBuild == NHITS_init

SpecBuild == InitBuild /\ [][NextBuild]_vars

\* the hidden-layer lists of the runs with exogenous inputs: one whose
\* layers chain and one whose second entry does not accept the first's output
MlpChoices == {<<<<2, 2>>>>, <<<<2, 3>>, <<2, 2>>>>}

\* a configuration of two blocks, in one stack with kernel k or (nb =
\* <<1, 1>>) in two stacks with kernel k and the next kernel, with the given
\* numbers of historical, future and static exogenous variables
ExogConfig(L, k, nb, n_hist, n_futr, n_stat, mlp_units, pooling_mode) ==
    [Config(2, L, Identities(Len(nb)), nb, mlp_units,
            IF Len(nb) = 1 THEN <<k>> ELSE <<k, (k % MaxKernel) + 1>>,
            [s \in 1..Len(nb) |-> 1],
            Modes(pooling_mode, "linear", "ReLU"), 0,
            [outputsize_multiplier |-> 1, domain_map |-> "squeeze"])
        EXCEPT !.hist_input_size = n_hist,
               !.futr_input_size = n_futr,
               !.stat_input_size = n_stat]

\* the numbers of future and of static channels, configured or supplied
FewChans == {0, 1}

ExogConfigs ==
    {ExogConfig(L, k, nb, nh, nf, ns, m, pm) :
        L \in 1..MaxL, k \in 1..MaxKernel, nb \in {<<2>>, <<1, 1>>},
        nh \in 0..MaxChan, nf \in FewChans,
        ns \in FewChans, m \in MlpChoices, pm \in POOLING}

\* an exogenous tensor of the given shape, or None for no channels; the
\* values rise along time for sign = 1 and fall for sign = -1
ExogTensor(shape, sign) ==
    IF shape[Len(shape)] = 0 THEN NoneTensor
    ELSE LET F(ix) == sign * (ix[1] + 2 * ix[2] + 7 * ix[Len(shape)])
         IN Tensor(shape, [ix \in Idx(shape) |-> F(ix)])

\* a batch of B windows of lookback L and horizon H that supplies the given
\* numbers of channels
ExogBatch(B, L, H, c_hist, c_futr, c_stat) ==
    LET Fy(ix) == IF (ix[1] + ix[2]) % 2 = 0 THEN 2 ELSE -1 - ix[1]
        Fm(ix) == IF ix[2] = 1 /\ L > 1 THEN 0 ELSE 1
    IN [insample_y |-> Tensor(<<B, L>>, [ix \in Idx(<<B, L>>) |-> Fy(ix)]),
        insample_mask |-> Tensor(<<B, L>>, [ix \in Idx(<<B, L>>) |-> Fm(ix)]),
        futr_exog |-> ExogTensor(<<B, L + H, c_futr>>, -1),
        hist_exog |-> ExogTensor(<<B, L, c_hist>>, 1),
        stat_exog |-> ExogTensor(<<B, c_stat>>, 1)]

InitExog == \E c \in ExogConfigs : InitWith(c)

\* construction and one forward call on a batch with exogenous inputs
NextExog ==
    \/ NHITS_init
    \/ /\ pc = "ready"
       /\ \E B \in 1..MaxBatch, ch \in 0..MaxChan, cf \in FewChans,
             cs \in FewChans :
              ForwardBegin(ExogBatch(B, cfg.input_size, cfg.h, ch, cf, cs), FALSE)
    \/ PerBlock
    \/ DomainMap
    \/ Return

SpecExog == InitExog /\ [][NextExog]_vars

\* the values of the knots
KnotVals == {-1, 2}

\* a theta of B rows with entries over den: the backcast part is fixed by
\* the position, the knots of the first row are kn and those of the other
\* rows are shifted copies
ThetaOf(B, L, kn, den) ==
    LET F(ix) == IF ix[2] <= L THEN ix[1] + 2 * ix[2]
                 ELSE IF ix[1] % 2 = 1 THEN kn[ix[2] - L] + (ix[1] - 1)
                 ELSE (ix[1] - 1) - kn[ix[2] - L]
    IN TensorOver(<<B, L + Len(kn)>>, [ix \in Idx(<<B, L + Len(kn)>>) |-> F(ix)], den)

\* a one-stack configuration with the given sizes, ratio and mode
BasisConfig(h, L, q, d, mode) ==
    Config(h, L, <<"identity">>, <<1>>, <<<<2, 2>>>>, <<1>>, <<d>>,
           Modes("MaxPool1d", mode, "ReLU"), 0,
           [outputsize_multiplier |-> q, domain_map |-> "identity"])

\* the basis create_stack builds for the configuration and a theta of the
\* width n_theta, before the call of the basis
InitBasisWith(c, B, kn, den) ==
    /\ pc = "basis"
    /\ cfg = c
    /\ identity_basis = IdentityBasis_init(c.input_size, c.h, c.interpolation_mode,
                                           c.loss.outputsize_multiplier)
    /\ theta_in = ThetaOf(B, c.input_size, kn, den)
    /\ basis_out = None
    /\ blocks = None
    /\ error = None
    /\ decompose_forecast = FALSE
    /\ windows_batch = None
    /\ residuals = None
    /\ insample_mask = None
    /\ forecast = None
    /\ block_forecasts = <<>>
    /\ i = 0
    /\ block_calls = <<>>
    /\ domain_map_calls = <<>>
    /\ result = None

InitBasis ==
    \E h \in 1..MaxH, L \in 1..MaxL, q \in 1..MaxQ, d \in 1..MaxFreq,
       mode \in {"nearest", "linear", "cubic", "tricubic"}, B \in 1..MaxBatch :
        LET c == BasisConfig(h, L, q, d, mode)
        IN \E kn \in [1..(n_theta_of(c, 1) - L) -> KnotVals], den \in 1..3 :
              InitBasisWith(c, B, kn, den)

NextBasis == BasisForward

\* _IdentityBasis.forward alone, on every theta of the configured width
SpecBasis == InitBasis /\ [][NextBasis]_vars

(***************************************************************************)
(* Properties of forward.  The runs of Spec pool with the maximum or with   *)
(* the average; with the average the residuals, the backcasts and the      *)
(* forecasts have den > 1, so entries are compared as fractions.           *)
(***************************************************************************)
\* the entry of t at ix, as a fraction num / den with den > 0 (for a
\* forecast-side tensor, in units of 1 / FUnit(h))
Entry(t, ix) == [num |-> t.val[ix], den |-> t.den]

\* the fractions a and b are the same number
SameFraction(a, b) == a.num * b.den = b.num * a.den

\* the sum of two fractions
FracAdd(a, b) ==
    [num |-> a.num * (Lcm(a.den, b.den) \div a.den)
             + b.num * (Lcm(a.den, b.den) \div b.den),
     den |-> Lcm(a.den, b.den)]

BatchSize == windows_batch.insample_y.shape[1]

OutFeatures == cfg.loss.outputsize_multiplier

\* the last observed value of batch row b, in units of 1 / FUnit(h): its
\* numerator over the denominator of insample_y
Level(b) ==
    FUnit(cfg.h)
    * windows_batch.insample_y.val[<<b, windows_batch.insample_y.shape[2]>>]

\* the last observed value of batch row b, as a fraction
Baseline(b) == [num |-> Level(b), den |-> windows_batch.insample_y.den]

RECURSIVE SumCalls(_, _)
\* the sum of the forecasts of the first k blocks called, at one index, as a
\* fraction
SumCalls(k, ix) ==
    IF k = 0 THEN [num |-> 0, den |-> 1]
    ELSE FracAdd(SumCalls(k - 1, ix), Entry(block_calls[k].block_forecast, ix))

\* t is the baseline plus the forecasts of the first k blocks
AccumulatedIs(t, k) ==
    /\ k >= 1 => t.shape = <<BatchSize, cfg.h, OutFeatures>>
    /\ \A ix \in Idx(t.shape) :
          SameFraction(Entry(t, ix), FracAdd(Baseline(ix[1]), SumCalls(k, ix)))

\* t is zero wherever the time-reversed mask is zero
MaskedZero(t) ==
    \A ix \in Idx(insample_mask.shape) :
        insample_mask.val[ix] = 0 => t.val[ix] = 0

\* the state machine returns what NHITS_forward computes
ForwardAgrees ==
    pc = "done" =>
        LET r == NHITS_forward(cfg, blocks, windows_batch, decompose_forecast)
        IN r.ok /\ r.result = result /\ r.handed = domain_map_calls[1]

\* C1: while the blocks run, the accumulator after the k-th block is the
\* last observed value (at every horizon step and output feature) plus the
\* sum of the first k block forecasts; the tensor handed to domain_map after
\* the last block is the baseline plus the sum of all block forecasts.
C1_ForecastIsBaselinePlusBlocks ==
    /\ pc = "loop" => AccumulatedIs(forecast, Len(block_calls))
    /\ pc \in {"mapped", "done"} =>
          /\ Len(block_calls) = Len(blocks)
          /\ AccumulatedIs(domain_map_calls[1], Len(blocks))

\* two blocks have run with average pooling on a batch of two, both
\* contributed at some index, with forecasts of different denominators, and
\* the accumulator holds fractions
C1_Witness ==
    /\ pc = "loop"
    /\ i > Len(blocks)
    /\ Len(block_calls) >= 2
    /\ BatchSize = 2
    /\ cfg.pooling_mode = "AvgPool1d"
    /\ forecast.den > 1
    /\ \E j, k \in 1..Len(block_calls) :
          block_calls[j].block_forecast.den # block_calls[k].block_forecast.den
    /\ \E ix \in Idx(forecast.shape) :
          /\ ix[1] = 2
          /\ block_calls[1].block_forecast.val[ix] # 0
          /\ block_calls[2].block_forecast.val[ix] # 0

\* C2 as claimed: the residual handed to every block, the first included,
\* and the residual after every update, is zero wherever the mask is zero.
C2_ResidualZeroAtEveryIteration ==
    /\ \A j \in 1..Len(block_calls) : MaskedZero(block_calls[j].insample_y)
    /\ Len(block_calls) >= 1 => MaskedZero(residuals)

\* C2, amended: the residual after every update, hence the residual handed
\* to every block but the first, is zero wherever the mask is zero; the first
\* block is handed the time-reversed lookback as it is.
C2_ResidualZeroAfterUpdate ==
    /\ Len(block_calls) >= 1 =>
          /\ MaskedZero(residuals)
          /\ block_calls[1].insample_y = Flip(windows_batch.insample_y)
    /\ \A j \in 2..Len(block_calls) : MaskedZero(block_calls[j].insample_y)

\* the second update zeroed a position where residual - backcast was not zero
C2_Witness ==
    /\ Len(block_calls) >= 2
    /\ \E ix \in Idx(insample_mask.shape) :
          /\ insample_mask.val[ix] = 0
          /\ ~SameFraction(Entry(block_calls[2].insample_y, ix),
                           Entry(block_calls[2].backcast, ix))
          /\ residuals.val[ix] = 0

\* the decomposition holds the contributions as the blocks returned them
UnmappedContributions(t) ==
    /\ t.shape[2] = 1 + Len(block_calls)
    /\ \A ix \in Idx(t.shape) :
          SameFraction(Entry(t, ix),
                       IF ix[2] = 1 THEN Baseline(ix[1])
                       ELSE Entry(block_calls[ix[2] - 1].block_forecast,
                                  IF Len(ix) = 3 THEN <<ix[1], ix[3], 1>>
                                  ELSE <<ix[1], ix[3], ix[4]>>))

\* C3 as claimed: a call that returns the decomposition never invoked
\* domain_map; a call that returns the forecast invoked it once and returns
\* its result.
C3_DomainMapOnlyWithoutDecomposition ==
    pc = "done" =>
        IF decompose_forecast THEN domain_map_calls = <<>>
        ELSE /\ Len(domain_map_calls) = 1
             /\ result = domain_map(cfg.loss.domain_map, domain_map_calls[1])

\* C3, amended: domain_map is invoked exactly once per forward evaluation,
\* on both paths, after the last block and on the final accumulated forecast;
\* without decomposition its result is returned, with decomposition its
\* result is discarded and the unmapped contributions are returned.  A call
\* that raises at the return statement has invoked it once as well.
C3_DomainMapOncePerForward ==
    /\ pc = "loop" => domain_map_calls = <<>>
    /\ pc = "raised" =>
          Len(domain_map_calls) = IF Len(block_calls) = Len(blocks) THEN 1 ELSE 0
    /\ pc \in {"mapped", "done"} =>
          /\ Len(domain_map_calls) = 1
          /\ Len(block_calls) = Len(blocks)
          /\ AccumulatedIs(domain_map_calls[1], Len(blocks))
          /\ forecast = domain_map(cfg.loss.domain_map, domain_map_calls[1])
    /\ pc = "done" =>
          IF decompose_forecast THEN UnmappedContributions(result)
          ELSE result = forecast

\* a decomposition with fractional contributions was returned after
\* domain_map changed the forecast
C3_Witness ==
    /\ pc = "done"
    /\ decompose_forecast
    /\ Len(blocks) >= 1
    /\ Len(domain_map_calls) = 1
    /\ cfg.pooling_mode = "AvgPool1d"
    /\ result.den > 1
    /\ forecast.shape = domain_map_calls[1].shape
    /\ \E ix \in Idx(forecast.shape) :
          ~SameFraction(Entry(forecast, ix), Entry(domain_map_calls[1], ix))

\* C4: with decomposition requested, once every block (at least one) has
\* run, forward returns one tensor of shape batch x (1 + N) x H x out_features (the
\* feature axis dropped when out_features = 1) that holds the baseline and
\* then the block forecasts in block order.
C4_DecompositionForEveryOutFeatures ==
    (decompose_forecast /\ pc \in {"done", "raised"}
     /\ Len(blocks) >= 1 /\ Len(block_calls) = Len(blocks)) =>
        /\ pc = "done"
        /\ result.shape
              = IF OutFeatures = 1 THEN <<BatchSize, 1 + Len(blocks), cfg.h>>
                ELSE <<BatchSize, 1 + Len(blocks), cfg.h, OutFeatures>>
        /\ UnmappedContributions(result)

\* the sum of a decomposition over its block axis, from entry "from" on
DecompSum(t, from) ==
    LET F(ix) == SumSeq([j \in 1..(t.shape[2] - from + 1) |->
                           t.val[<<ix[1], from + j - 1>> \o Tail(ix)]])
    IN TensorOver(<<t.shape[1]>> \o SubSeq(t.shape, 3, Rank(t)), [ix \in Idx(<<t.shape[1]>> \o SubSeq(t.shape, 3, Rank(t))) |-> F(ix)], t.den)

\* a = b - baseline at every index, up to a feature axis of size 1 and with
\* broadcasting along the horizon
IsMinusBaseline(a, b) ==
    LET a1 == IF Rank(a) = 3 THEN SqueezeLast(a) ELSE a
        b1 == IF Rank(b) = 3 THEN SqueezeLast(b) ELSE b
    IN /\ Rank(a1) = 2 /\ Rank(b1) = 2
       /\ Broadcastable(a1, b1)
       /\ \A ix \in Idx(BShape(a1, b1)) :
             SameFraction(FracAdd(Entry(a1, BIx(a1, ix)), Baseline(ix[1])),
                          Entry(b1, BIx(b1, ix)))

\* C5 as claimed, for a model of at least one block: the decomposition
\* summed over its block axis, entry 0 excluded, is the forecast the call
\* without decomposition returns (after domain_map) minus the baseline.
C5_DecompositionSumsToReturnedForecast ==
    (pc = "done" /\ decompose_forecast /\ Len(blocks) >= 1) =>
        LET ref == NHITS_forward(cfg, blocks, windows_batch, FALSE)
        IN ref.ok /\ IsMinusBaseline(DecompSum(result, 2), ref.result)

\* C5, amended: whenever the call with decomposition returns, its result
\* summed over the block axis, entry 0 excluded, is F - baseline, where F is
\* the accumulated forecast that the call without decomposition hands to
\* domain_map (before the mapping), for the same weights and inputs.
C5_DecompositionSumsToHandedForecast ==
    (pc = "done" /\ decompose_forecast) =>
        LET ref == NHITS_forward(cfg, blocks, windows_batch, FALSE)
        IN ref.ok /\ IsMinusBaseline(DecompSum(result, 2), ref.handed)

\* a decomposition of two or more blocks with average pooling on a batch of
\* two, with fractional contributions that do not sum to zero
C5_Witness ==
    /\ pc = "done"
    /\ decompose_forecast
    /\ Len(blocks) >= 2
    /\ BatchSize = 2
    /\ cfg.pooling_mode = "AvgPool1d"
    /\ DecompSum(result, 2).den > 1
    /\ \E ix \in Idx(DecompSum(result, 2).shape) :
          ix[1] = 2 /\ DecompSum(result, 2).val[ix] # 0

\* C6: for every block list, the empty one included, the forecast handed to
\* domain_map has shape batch x H x out_features, and with no block it holds
\* the last observed value at each of the H steps.
C6_CombinedForecastShape ==
    pc \in {"mapped", "done"} =>
        /\ domain_map_calls[1].shape = <<BatchSize, cfg.h, OutFeatures>>
        /\ Len(blocks) = 0 =>
              \A ix \in Idx(<<BatchSize, cfg.h, OutFeatures>>) :
                  SameFraction(Entry(domain_map_calls[1], ix), Baseline(ix[1]))

(***************************************************************************)
(* Properties of construction.                                             *)
(***************************************************************************)
RECURSIVE StackOf(_, _, _)
\* the stack (from si on) that holds the k-th block of those stacks
StackOf(n_blocks, si, k) ==
    IF k <= n_blocks[si] THEN si ELSE StackOf(n_blocks, si + 1, k - n_blocks[si])

\* max(floor(H / d), 1) for stack si
NKnots(c, si) == Max(c.h \div c.n_freq_downsample[si], 1)

\* the output width of a block's last layer
ProjectorWidth(block) == block.layers[Len(block.layers)].out_features

\* the basis of the block splits a theta of the projector's width into L
\* backcast entries and out_features rows of n_knots knots, in order, with
\* nothing left over
SplitsExactly(block, L, Q, n_knots) ==
    LET F(ix) == ix[2]
        theta == Tensor(<<1, ProjectorWidth(block)>>, [ix \in Idx(<<1, ProjectorWidth(block)>>) |-> F(ix)])
    IN /\ BasisReshapeOk(block.basis, theta)
       /\ BasisBackcast(block.basis, theta).shape = <<1, L>>
       /\ \A n \in 1..L : BasisBackcast(block.basis, theta).val[<<1, n>>] = n
       /\ BasisNKnots(block.basis, theta) = n_knots
       /\ Concat([q \in 1..Q |-> BasisKnots(block.basis, theta, 1, q)])
          = [n \in 1..(Q * n_knots) |-> L + n]
       /\ L + Q * n_knots = ProjectorWidth(block)

\* C7: every block built for stack si has projector output width
\* L + out_features * max(floor(H / d_si), 1), with the ratio d_si of its own
\* stack, and its basis splits such a theta into exactly L backcast entries
\* and out_features x n_knots knots.
C7_NThetaAndSplit ==
    pc = "ready" =>
        \A k \in 1..Len(blocks) :
            LET si == StackOf(cfg.n_blocks, 1, k)
            IN /\ ProjectorWidth(blocks[k])
                  = cfg.input_size + OutFeatures * NKnots(cfg, si)
               /\ SplitsExactly(blocks[k], cfg.input_size, OutFeatures,
                                NKnots(cfg, si))

\* two stacks were built with different widths, two output features, and a
\* ratio above the horizon in the second stack
C7_Witness ==
    /\ pc = "ready"
    /\ Len(blocks) >= 2
    /\ OutFeatures = 2
    /\ Len(cfg.stack_types) = 2
    /\ cfg.n_freq_downsample[2] > cfg.h
    /\ ProjectorWidth(blocks[1]) # ProjectorWidth(blocks[Len(blocks)])

PerStackLengths(c) ==
    {Len(c.stack_types), Len(c.n_blocks), Len(c.mlp_units),
     Len(c.n_pool_kernel_size), Len(c.n_freq_downsample)}

\* C8 (its first half, on which the rest depends): construction fails
\* whenever the per-stack lists do not all have the same length.
C8_MismatchedListsFail ==
    (pc # "new" /\ Cardinality(PerStackLengths(cfg)) > 1) => pc = "failed"

\* C9 (its first half): construction fails whenever some entry of
\* stack_types is not "identity", whatever n_blocks is.
C9_OtherStackTypeFails ==
    (pc # "new" /\ \E si \in DOMAIN cfg.stack_types :
                      cfg.stack_types[si] # "identity") => pc = "failed"

\* C10: construction fails whenever the dropout probability is not zero,
\* for every stack and block-count configuration.
C10_DropoutFails ==
    (pc # "new" /\ cfg.dropout_prob_theta # 0) => pc = "failed"

(***************************************************************************)
(* Properties of _IdentityBasis.forward, over SpecBasis.                   *)
(***************************************************************************)
\* knot j (1-based) of feature q in row b of theta_in, read off theta
\* directly: the knots follow the backcast, feature after feature
KnotAt(b, q, j, n_knots) ==
    Entry(theta_in, <<b, identity_basis.backcast_size + (q - 1) * n_knots + j>>)

\* the backcast returned is the first backcast_size entries of every row
BackcastIsPrefix ==
    /\ basis_out.backcast.shape = <<theta_in.shape[1], identity_basis.backcast_size>>
    /\ \A ix \in Idx(basis_out.backcast.shape) :
          SameFraction(Entry(basis_out.backcast, ix), Entry(theta_in, ix))

\* C15: when n_knots = H, the nearest and the linear mode return the first L
\* entries of theta as the backcast and the knots themselves as the forecast,
\* elementwise, for every batch row (and every feature).
C15_IdentityWhenKnotsEqualHorizon ==
    (/\ pc = "basis_done"
     /\ identity_basis.interpolation_mode \in {"nearest", "linear"}
     /\ NKnots(cfg, 1) = cfg.h)
    => /\ basis_out.ok
       /\ BackcastIsPrefix
       /\ basis_out.forecast.shape
             = <<theta_in.shape[1], cfg.h, identity_basis.out_features>>
       /\ \A ix \in Idx(basis_out.forecast.shape) :
             SameFraction(Entry(basis_out.forecast, ix),
                          [num |-> FUnit(cfg.h) * KnotAt(ix[1], ix[3], ix[2], cfg.h).num,
                           den |-> KnotAt(ix[1], ix[3], ix[2], cfg.h).den])

\* a call with one feature, two or more distinct fractional knots and two
\* rows returned the knots
C15_Witness ==
    /\ pc = "basis_done"
    /\ identity_basis.interpolation_mode \in {"nearest", "linear"}
    /\ identity_basis.out_features = 1
    /\ cfg.h >= 2
    /\ NKnots(cfg, 1) = cfg.h
    /\ theta_in.shape[1] >= 2
    /\ theta_in.den > 1
    /\ ~SameFraction(KnotAt(1, 1, 1, cfg.h), KnotAt(1, 1, 2, cfg.h))
    /\ basis_out.ok
    /\ SameFraction(Entry(basis_out.forecast, <<1, 2, 1>>),
                    [num |-> FUnit(cfg.h) * KnotAt(1, 1, 2, cfg.h).num,
                     den |-> KnotAt(1, 1, 2, cfg.h).den])

\* C16: when the ratio exceeds H there is one knot per feature, and the
\* nearest and the linear mode return, for every row and feature, H entries
\* all equal to that knot.
C16_ConstantWhenSingleKnot ==
    (/\ pc = "basis_done"
     /\ identity_basis.interpolation_mode \in {"nearest", "linear"}
     /\ cfg.n_freq_downsample[1] > cfg.h)
    => /\ NKnots(cfg, 1) = 1
       /\ basis_out.ok
       /\ basis_out.forecast.shape
             = <<theta_in.shape[1], cfg.h, identity_basis.out_features>>
       /\ \A ix \in Idx(basis_out.forecast.shape) :
             SameFraction(Entry(basis_out.forecast, ix),
                          [num |-> FUnit(cfg.h) * KnotAt(ix[1], ix[3], 1, 1).num,
                           den |-> KnotAt(ix[1], ix[3], 1, 1).den])

\* a linear call with a ratio above H, H >= 2 and two features with
\* different fractional knots returned two constant rows
C16_Witness ==
    /\ pc = "basis_done"
    /\ identity_basis.interpolation_mode = "linear"
    /\ cfg.n_freq_downsample[1] > cfg.h
    /\ cfg.h >= 2
    /\ identity_basis.out_features >= 2
    /\ theta_in.den > 1
    /\ ~SameFraction(KnotAt(1, 1, 1, 1), KnotAt(1, 2, 1, 1))
    /\ basis_out.ok
    /\ SameFraction(Entry(basis_out.forecast, <<1, cfg.h, 2>>),
                    [num |-> FUnit(cfg.h) * KnotAt(1, 2, 1, 1).num,
                     den |-> KnotAt(1, 2, 1, 1).den])

\* C17: in every mode, the cubic one included, the call completes and
\* returns a forecast of shape batch x H x out_features.
C17_EveryModeReturnsForecast ==
    pc = "basis_done"
    => /\ basis_out.ok
       /\ basis_out.forecast.shape
             = <<theta_in.shape[1], cfg.h, identity_basis.out_features>>


(***************************************************************************)
(* Properties of the projector built by NHITSBlock.__init__.               *)
(***************************************************************************)
\* the positions of the affine layers of a projector
AffinePositions(layers) == {j \in DOMAIN layers : layers[j].op = "Linear"}

\* C13: in every block's projector every affine layer but the last is
\* immediately followed by the activation, the last affine layer is the last
\* layer, and its output width is n_theta.
C13_ActivationAfterEveryAffineButLast ==
    pc = "ready" =>
        \A k \in 1..Len(blocks) :
            LET layers == blocks[k].layers
                last == Len(layers)
            IN /\ layers[last].op = "Linear"
               /\ layers[last].out_features
                     = n_theta_of(cfg, StackOf(cfg.n_blocks, 1, k))
               /\ \A j \in AffinePositions(layers) \ {last} :
                     layers[j + 1].op = cfg.activation

(***************************************************************************)
(* Properties of the order of the blocks, over Spec.                       *)
(***************************************************************************)
\* block k of the list is the one built for its stack and its position
BuiltForPosition(k) ==
    LET si == StackOf(cfg.n_blocks, 1, k)
    IN /\ blocks[k].pooling_layer.kernel_size = cfg.n_pool_kernel_size[si]
       /\ ProjectorWidth(blocks[k]) = cfg.input_size + OutFeatures * NKnots(cfg, si)
       /\ blocks[k].basis.forecast_size = cfg.h
       /\ blocks[k].layers[1]
             = Linear(cfg.random_seed, k, 1,
                      CeilDiv(cfg.input_size, cfg.n_pool_kernel_size[si])
                          * (1 + cfg.hist_input_size)
                      + CeilDiv(cfg.input_size + cfg.h, cfg.n_pool_kernel_size[si])
                          * cfg.futr_input_size
                      + cfg.stat_input_size,
                      cfg.mlp_units[1][1])

\* call j was made on block j, with the residual it recorded
CallIsOfBlock(j) ==
    LET r == NHITSBlock_forward(blocks[j], block_calls[j].insample_y,
                                windows_batch.futr_exog, windows_batch.hist_exog,
                                windows_batch.stat_exog)
    IN /\ r.ok
       /\ r.backcast = block_calls[j].backcast
       /\ r.forecast = block_calls[j].block_forecast

\* the residual given to call j is the one the update after call j - 1
\* left: (residual - backcast) * mask of call j - 1, entry by entry
ResidualChained(j) ==
    LET prev == block_calls[j - 1]
        cur == block_calls[j].insample_y
        Diff(ix) == FracAdd(Entry(prev.insample_y, ix),
                            [num |-> -prev.backcast.val[ix],
                             den |-> prev.backcast.den])
    IN /\ cur.shape = prev.insample_y.shape
       /\ prev.backcast.shape = cur.shape
       /\ \A ix \in Idx(cur.shape) :
             SameFraction(Entry(cur, ix),
                          [num |-> Diff(ix).num * insample_mask.val[ix],
                           den |-> Diff(ix).den * insample_mask.den])

\* C18: create_stack returns sum(n_blocks) blocks ordered by stack and then
\* by block, each with its own stack's kernel and ratio and its own
\* projector; forward calls every block once, in that order, and gives block
\* j the residual left by the update after block j - 1 (the time-reversed
\* lookback for the first).
C18_BlocksBuiltAndCalledInOrder ==
    /\ pc \in {"ready", "loop", "mapped", "done"} =>
          /\ Len(blocks) = SumSeq(cfg.n_blocks)
          /\ \A k \in 1..Len(blocks) : BuiltForPosition(k)
    /\ pc = "loop" =>
          /\ Len(block_calls) = i - 1
          /\ Len(block_calls) <= Len(blocks)
          /\ Len(block_calls) >= 1 => CallIsOfBlock(Len(block_calls))
    /\ pc \in {"mapped", "done"} => Len(block_calls) = Len(blocks)
    /\ Len(block_calls) >= 1 =>
          block_calls[1].insample_y = Flip(windows_batch.insample_y)
    /\ \A j \in 2..Len(block_calls) : ResidualChained(j)

\* two stacks with different kernels and ratios were built with average
\* pooling and all their blocks have run, the second on a residual with
\* fractional entries, and the second block would have answered the first
\* call differently
C18_Witness ==
    /\ pc = "done"
    /\ Len(cfg.n_blocks) = 2
    /\ cfg.n_blocks[1] >= 1
    /\ cfg.n_blocks[2] >= 1
    /\ Len(block_calls) = Len(blocks)
    /\ cfg.pooling_mode = "AvgPool1d"
    /\ block_calls[2].insample_y.den > 1
    /\ blocks[1].pooling_layer.kernel_size
          # blocks[Len(blocks)].pooling_layer.kernel_size
    /\ NHITSBlock_forward(blocks[2], block_calls[1].insample_y,
                          windows_batch.futr_exog, windows_batch.hist_exog,
                          windows_batch.stat_exog).backcast
          # block_calls[1].backcast

(***************************************************************************)
(* Properties of the block's inputs, over SpecExog.                        *)
(***************************************************************************)
\* the number of channels an exogenous input supplies (its last axis)
Channels(t) == IF IsNoneTensor(t) THEN 0 ELSE t.shape[Rank(t)]

\* the batch supplies exactly the configured numbers of channels
ChannelsAsConfigured ==
    /\ Channels(windows_batch.hist_exog) = cfg.hist_input_size
    /\ Channels(windows_batch.futr_exog) = cfg.futr_input_size
    /\ Channels(windows_batch.stat_exog) = cfg.stat_input_size

\* C11: once construction has succeeded, a forward call on a batch of the
\* configured shapes does not fail; a hidden-layer list that does not chain
\* is rejected at construction.
C11_NoConfigurationErrorAtForward ==
    ~(pc = "raised" /\ ChannelsAsConfigured)

\* C12: a forward call that supplies other numbers of historical, future or
\* static channels than configured fails instead of returning a forecast.
C12_ChannelMismatchFails ==
    pc = "done" => ChannelsAsConfigured

\* the pooled value of a window, as a fraction: its largest entry, or the
\* sum of its entries over their number
Pooled(mode, window) ==
    IF mode = "AvgPool1d"
    THEN [num |-> SumSeq(window), den |-> Len(window)]
    ELSE [num |-> CHOOSE m \in Range(window) : \A v \in Range(window) : v <= m,
          den |-> 1]

\* the pooled value of window j (kernel k, the last window truncated) of the
\* series x[1..T] / den, as a fraction
WindowPooled(x, T, k, j, den) ==
    LET p == Pooled(cfg.pooling_mode, SubSeq(x, (j - 1) * k + 1, Min(j * k, T)))
    IN [num |-> p.num, den |-> p.den * den]

\* what the claim says entry n of the vector of batch row b is, for block
\* blk (pooled with the kernel of its stack), the residual y and the supplied
\* exogenous inputs, as a fraction
ExpectedFeature(blk, y, b, n) ==
    LET L == cfg.input_size
        k == cfg.n_pool_kernel_size[StackOf(cfg.n_blocks, 1, blk)]
        P == CeilDiv(L, k)
        PF == CeilDiv(L + cfg.h, k)
        Ch == cfg.hist_input_size
        Cf == cfg.futr_input_size
        hist == windows_batch.hist_exog
        futr == windows_batch.futr_exog
        stat == windows_batch.stat_exog
    IN IF n <= P
       THEN WindowPooled([t \in 1..L |-> y.val[<<b, t>>]], L, k, n, y.den)
       ELSE IF n <= P + Ch * P
       THEN LET m == n - P - 1
                c == (m % Ch) + 1
                j == (m \div Ch) + 1
            IN WindowPooled([t \in 1..L |-> hist.val[<<b, t, c>>]], L, k, j,
                            hist.den)
       ELSE IF n <= P + Ch * P + Cf * PF
       THEN LET m == n - P - Ch * P - 1
                c == (m % Cf) + 1
                j == (m \div Cf) + 1
            IN WindowPooled([t \in 1..(L + cfg.h) |-> futr.val[<<b, t, c>>]],
                            L + cfg.h, k, j, futr.den)
       ELSE [num |-> stat.val[<<b, n - P - Ch * P - Cf * PF>>], den |-> stat.den]

\* the length the claim gives the vector of block j
ExpectedWidth(j) ==
    CeilDiv(cfg.input_size, cfg.n_pool_kernel_size[StackOf(cfg.n_blocks, 1, j)])
        * (1 + cfg.hist_input_size)
    + CeilDiv(cfg.input_size + cfg.h,
              cfg.n_pool_kernel_size[StackOf(cfg.n_blocks, 1, j)])
        * cfg.futr_input_size
    + cfg.stat_input_size

\* the vector block j was handed for batch row b: its numerators
FeaturesOfCall(j, b) ==
    Features(blocks[j], block_calls[j].insample_y, windows_batch.futr_exog,
             windows_batch.hist_exog, windows_batch.stat_exog, b)

\* the denominator of the vector block j was handed
FeaturesDenOfCall(j) ==
    FeaturesDen(blocks[j], block_calls[j].insample_y, windows_batch.futr_exog,
                windows_batch.hist_exog, windows_batch.stat_exog)

\* C14: the vector handed to the projector is the pooled residual, then the
\* flattened pooled historical values, then the flattened pooled future
\* values, then the static features; a group with no channels contributes
\* nothing; the length is the input width of the projector's first layer.
C14_FeatureVectorLayout ==
    (/\ pc = "loop"
     /\ Len(block_calls) >= 1
     /\ ChannelsAsConfigured)
    => LET j == Len(block_calls)
       IN /\ blocks[j].layers[1].in_features = ExpectedWidth(j)
          /\ \A b \in 1..BatchSize :
                /\ Len(FeaturesOfCall(j, b)) = ExpectedWidth(j)
                /\ \A n \in 1..ExpectedWidth(j) :
                      SameFraction(
                          [num |-> FeaturesOfCall(j, b)[n],
                           den |-> FeaturesDenOfCall(j)],
                          ExpectedFeature(j, block_calls[j].insample_y, b, n))

\* the block of a second stack, with another kernel than the first and
\* with average pooling, ran on a residual with fractional entries,
\* with a truncated last window and with historical, future and static
\* inputs, whose pooled values differ
C14_Witness ==
    /\ pc = "loop"
    /\ Len(block_calls) = 2
    /\ ChannelsAsConfigured
    /\ cfg.hist_input_size >= 2
    /\ cfg.futr_input_size >= 1
    /\ cfg.stat_input_size >= 1
    /\ Len(cfg.n_blocks) = 2
    /\ cfg.n_pool_kernel_size[2] >= 2
    /\ cfg.n_pool_kernel_size[2] # cfg.n_pool_kernel_size[1]
    /\ cfg.input_size % cfg.n_pool_kernel_size[2] # 0
    /\ cfg.pooling_mode = "AvgPool1d"
    /\ block_calls[2].insample_y.den > 1
    /\ Len(FeaturesOfCall(2, 1)) = ExpectedWidth(2)
    /\ ~SameFraction(
            ExpectedFeature(2, block_calls[2].insample_y, 1, ExpectedWidth(2) - 1),
            ExpectedFeature(2, block_calls[2].insample_y, 1, ExpectedWidth(2) - 2))

====
